---- MODULE Spec2Model ----
(***************************************************************************)
(* Model of the immutable-field analyzer (cmd/immitablecheck/main.go).     *)
(* One behaviour is one invocation of run(pass): the descriptor loader     *)
(* loop, the registry builder over the package scope, the local marker     *)
(* scanner over the struct declarations and the mutation scanner over the  *)
(* statements of the files under analysis.                                 *)
(* Go strings are sequences of one-character strings, so that Trim,        *)
(* Contains, EqualFold, Split and ToUpper are computed as the library      *)
(* computes them.                                                          *)
(***************************************************************************)
EXTENDS Integers, Sequences, FiniteSets, TLC

\* ------------------------------------------------------------------------
\* Bounds of the model
\* ------------------------------------------------------------------------
MaxStmts == 2
MaxDecls == 2
MaxMessages == 2

\* ------------------------------------------------------------------------
\* package strings
\* ------------------------------------------------------------------------
Lowers == <<"a","b","c","d","e","f","g","h","i","j","k","l","m","n","o","p","q","r","s","t","u","v","w","x","y","z">>
Uppers == <<"A","B","C","D","E","F","G","H","I","J","K","L","M","N","O","P","Q","R","S","T","U","V","W","X","Y","Z">>

ToLowerCh(c) ==
    IF \E i \in 1..Len(Uppers) : Uppers[i] = c
    THEN Lowers[CHOOSE i \in 1..Len(Uppers) : Uppers[i] = c]
    ELSE c

ToUpperCh(c) ==
    IF \E i \in 1..Len(Lowers) : Lowers[i] = c
    THEN Uppers[CHOOSE i \in 1..Len(Lowers) : Lowers[i] = c]
    ELSE c

ToLower(s) == [i \in 1..Len(s) |-> ToLowerCh(s[i])]

ToUpper(s) == [i \in 1..Len(s) |-> ToUpperCh(s[i])]

EqualFold(s, t) == ToLower(s) = ToLower(t)

Contains(s, sub) ==
    \E i \in 0..(Len(s) - Len(sub)) : SubSeq(s, i + 1, i + Len(sub)) = sub

RECURSIVE TrimLeft(_, _)
TrimLeft(s, cutset) ==
    IF Len(s) > 0 /\ s[1] \in cutset THEN TrimLeft(Tail(s), cutset) ELSE s

RECURSIVE TrimRight(_, _)
TrimRight(s, cutset) ==
    IF Len(s) > 0 /\ s[Len(s)] \in cutset
    THEN TrimRight(SubSeq(s, 1, Len(s) - 1), cutset)
    ELSE s

Trim(s, cutset) == TrimRight(TrimLeft(s, cutset), cutset)

RECURSIVE Split(_, _)
Split(s, sep) ==
    IF \E i \in 1..Len(s) : s[i] = sep
    THEN LET i == CHOOSE k \in 1..Len(s) :
                     s[k] = sep /\ \A j \in 1..(k - 1) : s[j] # sep
         IN  <<SubSeq(s, 1, i - 1)>> \o Split(SubSeq(s, i + 1, Len(s)), sep)
    ELSE <<s>>

RECURSIVE Join(_)
Join(parts) == IF parts = <<>> THEN <<>> ELSE Head(parts) \o Join(Tail(parts))

\* a transliteration that capitalises the first character and keeps the separators
snakeToCamelCase_KeepSeparator(s) ==
    IF Len(s) > 0 THEN ToUpper(SubSeq(s, 1, 1)) \o SubSeq(s, 2, Len(s)) ELSE s

snakeToCamelCase(s) ==
    LET parts == Split(s, "_")
        cap(p) == IF Len(p) > 0 THEN ToUpper(SubSeq(p, 1, 1)) \o SubSeq(p, 2, Len(p)) ELSE p
    IN  Join([i \in 1..Len(parts) |-> cap(parts[i])])

\* the field-name comparison of the registry builder and of the fallbacks
FieldMatches(fieldName, immField) ==
    \/ EqualFold(fieldName, immField)
    \/ EqualFold(fieldName, snakeToCamelCase(immField))

\* ------------------------------------------------------------------------
\* package path/filepath and the candidate descriptor locations
\* ------------------------------------------------------------------------
RECURSIVE Clean(_, _)
Clean(segs, acc) ==
    IF segs = <<>> THEN acc
    ELSE LET h == Head(segs) IN
         IF h = "." THEN Clean(Tail(segs), acc)
         ELSE IF h = ".." /\ Len(acc) > 0 /\ acc[Len(acc)] # ".."
              THEN Clean(Tail(segs), SubSeq(acc, 1, Len(acc) - 1))
              ELSE Clean(Tail(segs), Append(acc, h))

FilepathJoin(a, b) == Clean(a \o b, <<>>)

DescriptorRel == <<"pb", "descriptor", "all.protos.pb">>

possiblePaths(pkgPath) ==
    << DescriptorRel,
       <<".">> \o DescriptorRel,
       FilepathJoin(pkgPath, <<"..", "..">> \o DescriptorRel),
       FilepathJoin(pkgPath, <<"..">> \o DescriptorRel),
       FilepathJoin(pkgPath, DescriptorRel) >>

\* the file a path names (the working directory is fixed during a run)
FileOf(path) == Clean(path, <<>>)

CandidateFiles(pkgPath) ==
    { FileOf(possiblePaths(pkgPath)[i]) : i \in 1..Len(possiblePaths(pkgPath)) }

\* ------------------------------------------------------------------------
\* The descriptor document and loadDescriptorSet
\* ------------------------------------------------------------------------
NoOptions == [present |-> FALSE, bytes |-> <<>>]
OptImmutableTrue == [present |-> TRUE, bytes |-> <<184, 136, 29, 1>>]
OptImmutableFalse == [present |-> TRUE, bytes |-> <<184, 136, 29, 0>>]
\* an options block that serialises to nothing
OptEmpty == [present |-> TRUE, bytes |-> <<>>]
\* deprecated = true (field 3) serialised before the extension
OptImmutableLater == [present |-> TRUE, bytes |-> <<24, 1, 184, 136, 29, 1>>]
\* the extension followed by extension 59528
OptImmutableFirst == [present |-> TRUE, bytes |-> <<184, 136, 29, 1, 192, 136, 29, 1>>]

FieldDesc(n, o) == [name |-> n, options |-> o]

\* the descriptor set of the repository's proto files
DescriptorDoc ==
    << \* person.proto
       [messageType |-> <<
          [name |-> <<"P","e","r","s","o","n">>,
           field |-> << FieldDesc(<<"i","d">>, OptImmutableTrue),
                        FieldDesc(<<"n","a","m","e">>, NoOptions),
                        FieldDesc(<<"a","g","e">>, OptImmutableTrue) >>] >>],
       \* school.proto
       [messageType |-> <<
          [name |-> <<"S","c","h","o","o","l">>,
           field |-> << FieldDesc(<<"n","a","m","e">>, NoOptions),
                        FieldDesc(<<"a","d","d","r","e","s","s">>, OptImmutableFalse),
                        FieldDesc(<<"t","e","a","c","h","e","r","s">>, OptImmutableTrue) >>],
          [name |-> <<"T","e","a","c","h","e","r","T","e","a","m">>,
           field |-> << FieldDesc(<<"t","e","a","c","h","e","r","s">>, OptImmutableTrue) >>] >>],
       \* org.proto
       [messageType |-> <<
          [name |-> <<"D","e","p","t">>,
           field |-> << FieldDesc(<<"t","e","a","m","_","l","e","a","d">>, OptImmutableTrue),
                        FieldDesc(<<"h","e","a","d","_","_","c","o","u","n","t">>, OptImmutableTrue),
                        FieldDesc(<<"_","o","w","n","e","r">>, OptImmutableTrue),
                        FieldDesc(<<"t","e","a","m">>, NoOptions) >>],
          [name |-> <<"a","c","c","o","u","n","t">>,
           field |-> << FieldDesc(<<"i","d">>, OptImmutableTrue) >>],
          [name |-> <<"A","u","d","i","t">>,
           field |-> << FieldDesc(<<"s","t","a","m","p">>, NoOptions) >>] >>] >>

\* the options of the two fields, id and user_id, of a drawn message
OptionVectors ==
    { <<OptImmutableTrue, NoOptions>>,
      <<OptImmutableFalse, OptImmutableLater>>,
      <<OptImmutableFirst, OptImmutableTrue>>,
      <<OptEmpty, OptImmutableTrue>> }

MessagePool ==
    { [name |-> n,
       field |-> << FieldDesc(<<"i","d">>, o[1]), FieldDesc(<<"u","s","e","r","_","i","d">>, o[2]) >>] :
         n \in { <<"P","e","r","s","o","n">>, <<"S","c","h","o","o","l">> }, o \in OptionVectors }

RECURSIVE MessagesUpTo(_)
MessagesUpTo(n) ==
    IF n = 0 THEN { <<>> }
    ELSE MessagesUpTo(n - 1)
           \cup { Append(ms, m) : ms \in MessagesUpTo(n - 1), m \in MessagePool }

\* the descriptor sets of up to MaxMessages top-level messages: the first
\* message in one file, the others in a second
DescriptorSets ==
    { IF Len(ms) <= 1 THEN << [messageType |-> ms] >>
      ELSE << [messageType |-> << Head(ms) >>], [messageType |-> Tail(ms)] >> :
        ms \in MessagesUpTo(MaxMessages) \ { <<>> } }

HasImmutableOption(field) ==
    /\ field.options.present
    /\ LET optBytes == field.options.bytes IN
       /\ Len(optBytes) >= 4
       /\ optBytes[1] = 184
       /\ optBytes[2] = 136
       /\ optBytes[3] = 29
       /\ optBytes[4] = 1

ImmutableFieldInfo(msg) ==
    [MessageName |-> msg.name,
     FieldNames  |-> LET imm == SelectSeq(msg.field, HasImmutableOption)
                     IN  [i \in 1..Len(imm) |-> imm[i].name]]

RECURSIVE AllMessages(_)
AllMessages(fds) ==
    IF fds = <<>> THEN <<>> ELSE Head(fds).messageType \o AllMessages(Tail(fds))

EmptyInfo == [n \in {} |-> [MessageName |-> <<>>, FieldNames |-> <<>>]]

RECURSIVE CollectInfo(_, _)
CollectInfo(msgs, result) ==
    IF msgs = <<>> THEN result
    ELSE LET info == ImmutableFieldInfo(Head(msgs)) IN
         IF Len(info.FieldNames) > 0
         THEN CollectInfo(Tail(msgs), (info.MessageName :> info) @@ result)
         ELSE CollectInfo(Tail(msgs), result)

loadDescriptorSet(fds) == CollectInfo(AllMessages(fds), EmptyInfo)

\* ------------------------------------------------------------------------
\* The packages, their resolved types (go/types) and their syntax (go/ast)
\* ------------------------------------------------------------------------
PkgInfo(p) ==
    CASE p = "main" -> [Name |-> "main", Path |-> <<"goci-const-check">>]
      [] p = "pb"   -> [Name |-> "pb",   Path |-> <<"goci-const-check", "pb">>]
      [] p = "org"  -> [Name |-> "org",  Path |-> <<"goci-const-check", "org">>]
      [] p = "cfg"  -> [Name |-> "cfg",  Path |-> <<"goci-const-check", "cfg">>]
      [] p = "emb"  -> [Name |-> "emb",  Path |-> <<"goci-const-check", "emb">>]

\* strings.HasSuffix(v.Pkg().Path(), "/pb") on the segments of the path
HasSuffixPb(path) == Len(path) >= 2 /\ path[Len(path)] = "pb"

\* a *types.Var of a struct field: the declaring package and type, and the name
Var(p, owner, name, type) == [pkg |-> p, owner |-> owner, name |-> name, type |-> type]

Named(name) == [kind |-> "Named", name |-> name]
PointerTo(t) == [kind |-> "Pointer", elem |-> t]

PersonFields ==
    << Var("pb", <<"P","e","r","s","o","n">>, <<"I","d">>, "num"),
       Var("pb", <<"P","e","r","s","o","n">>, <<"N","a","m","e">>, "str"),
       Var("pb", <<"P","e","r","s","o","n">>, <<"A","g","e">>, "num") >>

SchoolFields ==
    << Var("pb", <<"S","c","h","o","o","l">>, <<"N","a","m","e">>, "str"),
       Var("pb", <<"S","c","h","o","o","l">>, <<"A","d","d","r","e","s","s">>, "str"),
       Var("pb", <<"S","c","h","o","o","l">>, <<"T","e","a","c","h","e","r","s">>, "ptr") >>

TeacherTeamFields ==
    << Var("pb", <<"T","e","a","c","h","e","r","T","e","a","m">>, <<"T","e","a","c","h","e","r","s">>, "map") >>

DeptFields ==
    << Var("org", <<"D","e","p","t">>, <<"T","e","a","m","L","e","a","d">>, "str"),
       Var("org", <<"D","e","p","t">>, <<"t","e","a","m","_","l","e","a","d">>, "str"),
       Var("org", <<"D","e","p","t">>, <<"T","e","a","m","L","e","a","d","I","d">>, "num"),
       Var("org", <<"D","e","p","t">>, <<"H","e","a","d","C","o","u","n","t">>, "num"),
       Var("org", <<"D","e","p","t">>, <<"O","w","n","e","r">>, "str"),
       Var("org", <<"D","e","p","t">>, <<"T","e","a","m">>, "str") >>

AccountFields ==
    << Var("org", <<"A","c","c","o","u","n","t">>, <<"I","d">>, "num") >>

AuditFields ==
    << Var("org", <<"A","u","d","i","t">>, <<"S","t","a","m","p">>, "num") >>

\* package emb: type Outer struct { pb.Person; Note string }; the first field
\* is the embedded field, named after its type
OuterFields ==
    << Var("emb", <<"O","u","t","e","r">>, <<"P","e","r","s","o","n">>, "embedded"),
       Var("emb", <<"O","u","t","e","r">>, <<"N","o","t","e">>, "str") >>

\* go/ast: one entry of st.Fields.List
NoTag == [present |-> FALSE, Value |-> <<>>]
Tag(v) == [present |-> TRUE, Value |-> v]
AstField(names, tag, comment, doc) ==
    [Names |-> names, Tag |-> tag, Comment |-> comment, Doc |-> doc]

\* the field declarations the struct Config of package cfg is drawn from:
\* the number of names declared, the type, the tag, the trailing and the
\* leading comment
DeclPool ==
    << [n |-> 1, type |-> "num", Tag |-> Tag(<<"backquote","i","m","m","u","t","a","b","l","e",":","\"","t","r","u","e","\""," ","j","s","o","n",":","\"","i","d","\"","backquote">>),
        Comment |-> <<>>, Doc |-> <<>>],
       [n |-> 1, type |-> "num", Tag |-> Tag(<<"backquote","i","m","m","u","t","a","b","l","e",":","\"","t","r","u","e","\"","backquote">>),
        Comment |-> <<>>, Doc |-> <<>>],
       [n |-> 1, type |-> "map", Tag |-> Tag(<<"backquote","j","s","o","n",":","\"","m","\""," ","i","m","m","u","t","a","b","l","e",":","\"","1","\"","backquote">>),
        Comment |-> <<>>, Doc |-> <<>>],
       [n |-> 1, type |-> "num", Tag |-> NoTag,
        Comment |-> << <<"/","/"," ","I","m","m","u","t","a","b","l","e"," ","a","f","t","e","r"," ","i","n","i","t">> >>, Doc |-> <<>>],
       [n |-> 2, type |-> "num", Tag |-> NoTag,
        Comment |-> <<>>, Doc |-> << <<"/","/"," ","s","e","t"," ","o","n","c","e">>, <<"/","/"," ","I","M","M","U","T","A","B","L","E">> >>],
       [n |-> 1, type |-> "map", Tag |-> Tag(<<"backquote","j","s","o","n",":","\"","m","\"","backquote">>),
        Comment |-> << <<"/","/"," ","c","a","c","h","e">> >>, Doc |-> <<>>],
       [n |-> 2, type |-> "num", Tag |-> NoTag,
        Comment |-> <<>>, Doc |-> <<>>] >>

FieldNameAt(i) == <<"F">> \o << (<<"1","2","3","4","5","6","7","8","9">>)[i] >>

RECURSIVE NamesBefore(_, _)
NamesBefore(decls, k) ==
    IF k <= 1 THEN 0 ELSE DeclPool[decls[k - 1]].n + NamesBefore(decls, k - 1)

\* st.Fields.List of struct Config for a choice of declarations
ConfigAstList(decls) ==
    [k \in 1..Len(decls) |->
        LET d == DeclPool[decls[k]]
            off == NamesBefore(decls, k)
        IN  AstField([j \in 1..d.n |-> FieldNameAt(off + j)], d.Tag, d.Comment, d.Doc)]

\* the resolved fields of struct Config: one *types.Var per declared name
RECURSIVE ConfigFields(_)
ConfigFields(decls) ==
    IF decls = <<>> THEN <<>>
    ELSE LET front == SubSeq(decls, 1, Len(decls) - 1)
             d == DeclPool[decls[Len(decls)]]
             off == NamesBefore(decls, Len(decls))
         IN  ConfigFields(front) \o
             [j \in 1..d.n |-> Var("cfg", <<"C","o","n","f","i","g">>, FieldNameAt(off + j), d.type)]

\* the generated structs of package pb; tagged = the comment patcher has run
PbAstList(fields, immNames, tagged) ==
    [i \in 1..Len(fields) |->
        AstField(<<fields[i].name>>,
                 Tag(<<"backquote","p","r","o","t","o","b","u","f",":","\"","o","p","t","\""," ","j","s","o","n",":","\"","f",",","o","m","i","t","e","m","p","t","y","\"","backquote">>),
                 IF tagged /\ fields[i].name \in immNames
                 THEN << <<"/","/"," ","i","m","m","u","t","a","b","l","e">> >> ELSE <<>>,
                 <<>>)]

\* the markers the declaration of the embedded field of Outer is drawn from
EmbedPool ==
    << [Tag |-> NoTag, Comment |-> <<>>],
       [Tag |-> NoTag, Comment |-> << <<"/","/"," ","i","m","m","u","t","a","b","l","e">> >>],
       [Tag |-> Tag(<<"backquote","i","m","m","u","t","a","b","l","e",":","\"","t","r","u","e","\""," ","j","s","o","n",":","\"","-","\"","backquote">>), Comment |-> <<>>],
       [Tag |-> Tag(<<"backquote","i","m","m","u","t","a","b","l","e",":","\"","t","r","u","e","\"","backquote">>), Comment |-> <<>>] >>

\* st.Fields.List of struct Outer: an entry without names for the embedded
\* field, then the field Note
OuterAstList(e) ==
    << AstField(<<>>, EmbedPool[e].Tag, EmbedPool[e].Comment, <<>>),
       AstField(<< <<"N","o","t","e">> >>, NoTag, <<>>, <<>>) >>

PlainAstList(fields) ==
    [i \in 1..Len(fields) |-> AstField(<<fields[i].name>>, NoTag, <<>>, <<>>)]

\* expressions and statements of the syntax tree, with the entry of
\* pass.TypesInfo.Selections of a selector
SelectorExpr(v, recv) ==
    [expr |-> "SelectorExpr", found |-> TRUE, obj |-> v, recv |-> recv]
IndexExpr(x) == [expr |-> "IndexExpr", X |-> x]
Ident == [expr |-> "Ident"]

AssignStmt(lhs) == [node |-> "AssignStmt", Lhs |-> lhs]
IncDecStmt(x) == [node |-> "IncDecStmt", X |-> x]
TypeSpec(name, list) == [node |-> "TypeSpec", Name |-> name, List |-> list]
OtherNode == [node |-> "Other"]

\* a selector x.f on a variable x of type *T, T the struct declaring f
Field(v) == SelectorExpr(v, PointerTo(Named(v.owner)))

\* the statements a field admits: assignment, indexed write on a container,
\* increment on a number
StmtsOn(v) ==
    {AssignStmt(<<Field(v)>>)}
      \cup (IF v.type = "map" THEN {AssignStmt(<<IndexExpr(Field(v))>>)} ELSE {})
      \cup (IF v.type = "num" THEN {IncDecStmt(Field(v))} ELSE {})

SeqsUpTo(S, n) == UNION { [1..k -> S] : k \in 1..n }

\* main.go of the repository (package main)
MainGo ==
    << AssignStmt(<<Ident>>),
       AssignStmt(<<Field(PersonFields[1])>>),
       AssignStmt(<<Field(PersonFields[2])>>),
       AssignStmt(<<Field(PersonFields[3])>>),
       OtherNode,
       AssignStmt(<<Ident>>),
       AssignStmt(<<Field(SchoolFields[1])>>),
       AssignStmt(<<Field(SchoolFields[2])>>),
       AssignStmt(<<Ident>>),
       AssignStmt(<<Field(SchoolFields[3])>>),
       AssignStmt(<<Ident>>),
       AssignStmt(<<Field(SchoolFields[3])>>),
       AssignStmt(<<IndexExpr(Field(TeacherTeamFields[1]))>>) >>

\* the statements the other packages are drawn from
PbStmtPool ==
    StmtsOn(PersonFields[1]) \cup StmtsOn(PersonFields[2])
      \cup StmtsOn(TeacherTeamFields[1])
      \cup {AssignStmt(<<Field(PersonFields[2]), Field(PersonFields[3])>>)}

OrgStmtPool ==
    { AssignStmt(<<Field(DeptFields[i])>>) : i \in 1..Len(DeptFields) }
      \cup StmtsOn(AccountFields[1])

\* a selector o.f on a variable o of type *Outer, f a field promoted from the
\* embedded Person: the receiver of the selection is *Outer
Promoted(v) == SelectorExpr(v, PointerTo(Named(<<"O","u","t","e","r">>)))

\* o.Person.f: the receiver of the selection is the struct Person
Through(v) == SelectorExpr(v, Named(v.owner))

EmbStmtPool ==
    { AssignStmt(<<Promoted(PersonFields[1])>>),
      IncDecStmt(Promoted(PersonFields[1])),
      AssignStmt(<<Promoted(PersonFields[2])>>),
      AssignStmt(<<Field(PersonFields[1])>>),
      AssignStmt(<<Through(PersonFields[1])>>),
      AssignStmt(<<Field(OuterFields[1])>>),
      AssignStmt(<<Field(OuterFields[2])>>) }

\* ------------------------------------------------------------------------
\* The analysis pass: pass.Pkg, pass.Files and pass.TypesInfo
\* ------------------------------------------------------------------------
Passes ==
    { [Pkg |-> "main", Tagged |-> FALSE, Decls |-> <<>>, Stmts |-> <<>>] }
      \cup { [Pkg |-> "pb", Tagged |-> t, Decls |-> <<>>, Stmts |-> st] :
                t \in BOOLEAN, st \in SeqsUpTo(PbStmtPool, MaxStmts) }
      \cup { [Pkg |-> "org", Tagged |-> FALSE, Decls |-> <<>>, Stmts |-> st] :
                st \in SeqsUpTo(OrgStmtPool, MaxStmts) }
      \cup { [Pkg |-> "emb", Tagged |-> FALSE, Decls |-> <<e>>, Stmts |-> st] :
                e \in 1..Len(EmbedPool), st \in SeqsUpTo(EmbStmtPool, MaxStmts) }
      \cup UNION { { [Pkg |-> "cfg", Tagged |-> FALSE, Decls |-> d, Stmts |-> st] :
                       st \in UNION { SeqsUpTo(StmtsOn(ConfigFields(d)[i]), MaxStmts) :
                                        i \in 1..Len(ConfigFields(d)) } } :
                   d \in SeqsUpTo(1..Len(DeclPool), MaxDecls) }

StructEntry(name, fields) == [Name |-> name, isStruct |-> TRUE, Fields |-> fields]
FuncEntry(name) == [Name |-> name, isStruct |-> FALSE, Fields |-> <<>>]

\* pass.Pkg.Scope(): the package-level objects in the order of scope.Names()
Scope(p) ==
    CASE p.Pkg = "main" -> << FuncEntry(<<"m","a","i","n">>) >>
      [] p.Pkg = "pb"   -> << StructEntry(<<"P","e","r","s","o","n">>, PersonFields),
                              StructEntry(<<"S","c","h","o","o","l">>, SchoolFields),
                              StructEntry(<<"T","e","a","c","h","e","r","T","e","a","m">>, TeacherTeamFields),
                              FuncEntry(<<"i","n","i","t">>) >>
      [] p.Pkg = "org"  -> << StructEntry(<<"A","c","c","o","u","n","t">>, AccountFields),
                              StructEntry(<<"A","u","d","i","t">>, AuditFields),
                              StructEntry(<<"D","e","p","t">>, DeptFields),
                              FuncEntry(<<"l","o","a","d">>) >>
      [] p.Pkg = "cfg"  -> << StructEntry(<<"C","o","n","f","i","g">>, ConfigFields(p.Decls)),
                              FuncEntry(<<"l","o","a","d">>) >>
      [] p.Pkg = "emb"  -> << StructEntry(<<"O","u","t","e","r">>, OuterFields),
                              FuncEntry(<<"t","o","u","c","h">>) >>

\* pass.Files: the nodes of each file in the order ast.Inspect visits them.
\* The first drawn statement follows the declarations, the others are in a
\* second file.
Files(p) ==
    LET first == SubSeq(p.Stmts, 1, 1)
        rest  == SubSeq(p.Stmts, 2, Len(p.Stmts))
    IN
    CASE p.Pkg = "main" -> << MainGo >>
      [] p.Pkg = "pb"   ->
           << << TypeSpec(<<"P","e","r","s","o","n">>,
                          PbAstList(PersonFields, {<<"I","d">>, <<"A","g","e">>}, p.Tagged)) >>
                \o first,
              << TypeSpec(<<"S","c","h","o","o","l">>,
                          PbAstList(SchoolFields, {<<"T","e","a","c","h","e","r","s">>}, p.Tagged)),
                 OtherNode,
                 TypeSpec(<<"T","e","a","c","h","e","r","T","e","a","m">>,
                          PbAstList(TeacherTeamFields, {<<"T","e","a","c","h","e","r","s">>}, p.Tagged)) >>
                \o rest >>
      [] p.Pkg = "org"  ->
           << << TypeSpec(<<"A","c","c","o","u","n","t">>, PlainAstList(AccountFields)),
                 TypeSpec(<<"A","u","d","i","t">>, PlainAstList(AuditFields)),
                 TypeSpec(<<"D","e","p","t">>, PlainAstList(DeptFields)) >> \o first,
              rest >>
      [] p.Pkg = "cfg"  ->
           << << TypeSpec(<<"C","o","n","f","i","g">>, ConfigAstList(p.Decls)) >> \o first,
              rest >>
      [] p.Pkg = "emb"  ->
           << << TypeSpec(<<"O","u","t","e","r">>, OuterAstList(p.Decls[1])) >> \o first,
              rest >>

\* pass.TypesInfo.Defs[ts.Name] and its underlying struct
StructOf(p, name) ==
    LET sc == Scope(p)
        i == CHOOSE k \in 1..Len(sc) : sc[k].Name = name
    IN  sc[i].Fields

\* the state of the files a run may find at the candidate locations
FileStates == {"absent", "malformed", "ok"}

\* every state of the candidate files
AllFileSystems(p) == [CandidateFiles(PkgInfo(p.Pkg).Path) -> FileStates]

\* the file in the working directory absent, malformed or well-formed, and a
\* well-formed file under the package behind a malformed one
FileSystems(p) ==
    LET files == CandidateFiles(PkgInfo(p.Pkg).Path)
        last == FileOf(possiblePaths(PkgInfo(p.Pkg).Path)[5])
    IN
    { [f \in files |-> "absent"],
      [f \in files |-> IF f = DescriptorRel THEN "ok" ELSE "absent"] }
    \cup
    (IF p.Pkg \in {"cfg", "emb"} THEN {}
     ELSE { [f \in files |-> IF f = DescriptorRel THEN "malformed" ELSE "absent"],
            [f \in files |-> IF f = DescriptorRel THEN "malformed"
                              ELSE IF f = last THEN "ok" ELSE "absent"] })

\* the passes with at most one declaration and one drawn statement
LoaderPasses == { p \in Passes : Len(p.Stmts) <= 1 /\ Len(p.Decls) <= 1 }

\* the passes over the untagged generated package with one drawn statement
DescriptorPasses ==
    { p \in Passes : p.Pkg = "pb" /\ ~p.Tagged /\ Len(p.Stmts) = 1 }

\* ------------------------------------------------------------------------
\* run: the registry builder (lines 101-132)
\* ------------------------------------------------------------------------
\* a registry builder that looks the struct name up case-insensitively
RegistryFields_FoldTypeName(entry, info) ==
    IF entry.isStruct
    THEN { entry.Fields[i] : i \in
             { k \in 1..Len(entry.Fields) :
                 \E m \in DOMAIN info :
                    /\ EqualFold(entry.Name, m)
                    /\ \E j \in 1..Len(info[m].FieldNames) :
                          FieldMatches(entry.Fields[k].name, info[m].FieldNames[j]) } }
    ELSE {}

RegistryFields(entry, info) ==
    IF entry.isStruct /\ entry.Name \in DOMAIN info
    THEN { entry.Fields[i] : i \in
             { k \in 1..Len(entry.Fields) :
                 \E j \in 1..Len(info[entry.Name].FieldNames) :
                    FieldMatches(entry.Fields[k].name, info[entry.Name].FieldNames[j]) } }
    ELSE {}

\* ------------------------------------------------------------------------
\* run: the local marker scanner (lines 135-203)
\* ------------------------------------------------------------------------
TagCutset == {"backquote", "\""}

TagIsImmutable(tag) ==
    /\ tag.present
    /\ LET tagText == Trim(tag.Value, TagCutset) IN
       \/ Contains(tagText, <<"i","m","m","u","t","a","b","l","e",":","\"","t","r","u","e","\"">>)
       \/ Contains(tagText, <<"i","m","m","u","t","a","b","l","e",":","\"","1","\"">>)

CommentIsImmutable(group) ==
    \E i \in 1..Len(group) : Contains(ToLower(group[i]), <<"i","m","m","u","t","a","b","l","e">>)

AstFieldIsImmutable(astField) ==
    \/ TagIsImmutable(astField.Tag)
    \/ CommentIsImmutable(astField.Comment)
    \/ CommentIsImmutable(astField.Doc)

\* the fields of one struct declaration the scanner adds: field i of the
\* resolved struct is paired with entry i of st.Fields.List
\* a scanner that skips the entries of the field list that have no names
ScannedFields_SkipEmbedded(fields, list) ==
    { fields[i] : i \in { k \in 1..Len(fields) :
                            /\ k <= Len(list)
                            /\ Len(list[k].Names) > 0
                            /\ AstFieldIsImmutable(list[k]) } }

ScannedFields(fields, list) ==
    { fields[i] : i \in { k \in 1..Len(fields) :
                            k <= Len(list) /\ AstFieldIsImmutable(list[k]) } }

\* ------------------------------------------------------------------------
\* run: the mutation scanner (lines 205-300)
\* ------------------------------------------------------------------------
\* a receiver lookup that does not look through the pointer
getReceiverTypeName_NoDeref(recv) ==
    IF recv.kind = "Named" THEN recv.name ELSE <<>>

getReceiverTypeName(recv) ==
    LET r == IF recv.kind = "Pointer" THEN recv.elem ELSE recv IN
    IF r.kind = "Named" THEN r.name ELSE <<>>

MsgAssign == "assignment to immutable field %s"
MsgIndex  == "modifying immutable field %s (map/slice index)"
MsgIncDec == "modifying immutable field %s (inc/dec)"

Diag(pos, format, name) == [Pos |-> pos, Format |-> format, Arg |-> name]

\* the descriptor fallback for a field of the generated-code package
ProtoFallback(v, typeName, info) ==
    /\ typeName \in DOMAIN info
    /\ \/ PkgInfo(v.pkg).Name = "pb"
       \/ HasSuffixPb(PkgInfo(v.pkg).Path)
    /\ \E j \in 1..Len(info[typeName].FieldNames) :
          FieldMatches(v.name, info[typeName].FieldNames[j])

IsFieldSelector(e) == e.expr = "SelectorExpr" /\ e.found

\* a left-hand side whose local check is made only when a descriptor was loaded
LhsReports_NeedsDescriptor(lhs, pos, imm, info) ==
    (IF IsFieldSelector(lhs)
     THEN IF lhs.obj \in imm /\ DOMAIN info # {}
          THEN << Diag(pos, MsgAssign, lhs.obj.name) >>
          ELSE IF ProtoFallback(lhs.obj, getReceiverTypeName(lhs.recv), info)
               THEN << Diag(pos, MsgAssign, lhs.obj.name) >>
               ELSE <<>>
     ELSE <<>>)
    \o
    (IF lhs.expr = "IndexExpr" /\ IsFieldSelector(lhs.X)
     THEN IF lhs.X.obj \in imm /\ DOMAIN info # {}
          THEN << Diag(pos, MsgIndex, lhs.X.obj.name) >>
          ELSE IF ProtoFallback(lhs.X.obj, getReceiverTypeName(lhs.X.recv), info)
               THEN << Diag(pos, MsgIndex, lhs.X.obj.name) >>
               ELSE <<>>
     ELSE <<>>)

\* a left-hand side whose index branch runs the fallback after the local check
LhsReports_IndexNoElse(lhs, pos, imm, info) ==
    (IF IsFieldSelector(lhs)
     THEN IF lhs.obj \in imm
          THEN << Diag(pos, MsgAssign, lhs.obj.name) >>
          ELSE IF ProtoFallback(lhs.obj, getReceiverTypeName(lhs.recv), info)
               THEN << Diag(pos, MsgAssign, lhs.obj.name) >>
               ELSE <<>>
     ELSE <<>>)
    \o
    (IF lhs.expr = "IndexExpr" /\ IsFieldSelector(lhs.X)
     THEN (IF lhs.X.obj \in imm
           THEN << Diag(pos, MsgIndex, lhs.X.obj.name) >> ELSE <<>>)
          \o
          (IF ProtoFallback(lhs.X.obj, getReceiverTypeName(lhs.X.recv), info)
           THEN << Diag(pos, MsgIndex, lhs.X.obj.name) >> ELSE <<>>)
     ELSE <<>>)

\* the reports of one left-hand side of an assignment (lines 211-268)
LhsReports(lhs, pos, imm, info) ==
    (IF IsFieldSelector(lhs)
     THEN IF lhs.obj \in imm
          THEN << Diag(pos, MsgAssign, lhs.obj.name) >>
          ELSE IF ProtoFallback(lhs.obj, getReceiverTypeName(lhs.recv), info)
               THEN << Diag(pos, MsgAssign, lhs.obj.name) >>
               ELSE <<>>
     ELSE <<>>)
    \o
    (IF lhs.expr = "IndexExpr" /\ IsFieldSelector(lhs.X)
     THEN IF lhs.X.obj \in imm
          THEN << Diag(pos, MsgIndex, lhs.X.obj.name) >>
          ELSE IF ProtoFallback(lhs.X.obj, getReceiverTypeName(lhs.X.recv), info)
               THEN << Diag(pos, MsgIndex, lhs.X.obj.name) >>
               ELSE <<>>
     ELSE <<>>)

RECURSIVE AssignReports(_, _, _, _, _)
AssignReports(lhsList, k, at, imm, info) ==
    IF k > Len(lhsList) THEN <<>>
    ELSE LhsReports(lhsList[k], <<at[1], at[2], k>>, imm, info)
           \o AssignReports(lhsList, k + 1, at, imm, info)

\* the reports of an increment/decrement statement (lines 270-296)
IncDecReports(x, pos, imm, info) ==
    IF IsFieldSelector(x)
    THEN (IF x.obj \in imm THEN << Diag(pos, MsgIncDec, x.obj.name) >> ELSE <<>>)
         \o
         (IF ProtoFallback(x.obj, getReceiverTypeName(x.recv), info)
          THEN << Diag(pos, MsgIncDec, x.obj.name) >>
          ELSE <<>>)
    ELSE <<>>

\* ------------------------------------------------------------------------
\* The state of one run
\* ------------------------------------------------------------------------
VARIABLES
    pass,               \* the analysis pass handed to run
    fs,                 \* the files at the candidate descriptor locations
    descriptor,         \* the descriptor set the well-formed files hold
    pc,                 \* the loop run is in: paths, registry, scan, mutate, done
    pathIdx,            \* index into possiblePaths
    readLog,            \* the paths handed to os.ReadFile, in order
    protoImmutableInfo, \* message name -> ImmutableFieldInfo
    scopeIdx,           \* index into scope.Names()
    immutableFields,    \* the set of immutable field symbols
    cursor,             \* <<file, node>> of the walk over pass.Files
    diags               \* the diagnostics reported so far, in order

vars == <<pass, fs, descriptor, pc, pathIdx, readLog, protoImmutableInfo, scopeIdx,
          immutableFields, cursor, diags>>

RECURSIVE SkipEmpty(_, _)
SkipEmpty(files, f) ==
    IF f > Len(files) \/ Len(files[f]) > 0 THEN f ELSE SkipEmpty(files, f + 1)

FirstPos(files) == << SkipEmpty(files, 1), 1 >>

NextPos(files, at) ==
    IF at[2] < Len(files[at[1]])
    THEN << at[1], at[2] + 1 >>
    ELSE << SkipEmpty(files, at[1] + 1), 1 >>

AtEnd(files, at) == at[1] > Len(files)

NodeAt(files, at) == files[at[1]][at[2]]

Start ==
    /\ pc = "paths"
    /\ pathIdx = 1
    /\ readLog = <<>>
    /\ protoImmutableInfo = EmptyInfo
    /\ scopeIdx = 1
    /\ immutableFields = {}
    /\ cursor = <<1, 1>>
    /\ diags = <<>>

Init ==
    /\ pass \in Passes
    /\ fs \in FileSystems(pass)
    /\ descriptor = DescriptorDoc
    /\ Start

\* the runs over every state of the candidate files
InitLoader ==
    /\ pass \in LoaderPasses
    /\ fs \in AllFileSystems(pass)
    /\ descriptor = DescriptorDoc
    /\ Start

\* the runs over the drawn descriptor sets
InitDescriptor ==
    /\ pass \in DescriptorPasses
    /\ fs \in FileSystems(pass)
    /\ descriptor \in DescriptorSets
    /\ Start

Paths == possiblePaths(PkgInfo(pass.Pkg).Path)

\* os.Stat fails: the next candidate (line 90)
StatFails ==
    /\ pc = "paths"
    /\ pathIdx <= Len(Paths)
    /\ fs[FileOf(Paths[pathIdx])] = "absent"
    /\ pathIdx' = pathIdx + 1
    /\ UNCHANGED <<pass, fs, descriptor, pc, readLog, protoImmutableInfo, scopeIdx,
                   immutableFields, cursor, diags>>

\* the file exists and loadDescriptorSet returns an error (lines 90-91)
LoadFails ==
    /\ pc = "paths"
    /\ pathIdx <= Len(Paths)
    /\ fs[FileOf(Paths[pathIdx])] = "malformed"
    /\ readLog' = Append(readLog, pathIdx)
    /\ pathIdx' = pathIdx + 1
    /\ UNCHANGED <<pass, fs, descriptor, pc, protoImmutableInfo, scopeIdx,
                   immutableFields, cursor, diags>>

\* a loader loop without the break after a successful load
LoadSucceeds_NoBreak ==
    /\ pc = "paths"
    /\ pathIdx <= Len(Paths)
    /\ fs[FileOf(Paths[pathIdx])] = "ok"
    /\ readLog' = Append(readLog, pathIdx)
    /\ protoImmutableInfo' = loadDescriptorSet(descriptor)
    /\ pathIdx' = pathIdx + 1
    /\ UNCHANGED <<pass, fs, descriptor, pc, scopeIdx, immutableFields, cursor, diags>>

\* the file exists and loads: the result is kept and the loop left (lines 91-93)
LoadSucceeds ==
    /\ pc = "paths"
    /\ pathIdx <= Len(Paths)
    /\ fs[FileOf(Paths[pathIdx])] = "ok"
    /\ readLog' = Append(readLog, pathIdx)
    /\ protoImmutableInfo' = loadDescriptorSet(descriptor)
    /\ pc' = "registry"
    /\ UNCHANGED <<pass, fs, descriptor, pathIdx, scopeIdx, immutableFields, cursor, diags>>

\* no candidate is left (line 96)
PathsExhausted ==
    /\ pc = "paths"
    /\ pathIdx > Len(Paths)
    /\ pc' = "registry"
    /\ UNCHANGED <<pass, fs, descriptor, pathIdx, readLog, protoImmutableInfo, scopeIdx,
                   immutableFields, cursor, diags>>

\* one name of the package scope (lines 103-132)
RegistryStep ==
    /\ pc = "registry"
    /\ scopeIdx <= Len(Scope(pass))
    /\ immutableFields' =
          immutableFields \cup RegistryFields(Scope(pass)[scopeIdx], protoImmutableInfo)
    /\ scopeIdx' = scopeIdx + 1
    /\ IF scopeIdx = Len(Scope(pass))
       THEN pc' = "scan" /\ cursor' = FirstPos(Files(pass))
       ELSE UNCHANGED <<pc, cursor>>
    /\ UNCHANGED <<pass, fs, descriptor, pathIdx, readLog, protoImmutableInfo, diags>>

\* the walk of the scanner leaves the last file: the walk of the mutation
\* scanner starts (lines 203-206)
AfterScan(at) ==
    IF AtEnd(Files(pass), at)
    THEN pc' = "mutate" /\ cursor' = FirstPos(Files(pass))
    ELSE pc' = pc /\ cursor' = at

\* a struct declaration met by the scanner (lines 137-201)
ScanTypeSpec ==
    /\ pc = "scan"
    /\ NodeAt(Files(pass), cursor).node = "TypeSpec"
    /\ LET ts == NodeAt(Files(pass), cursor) IN
       immutableFields' =
          immutableFields \cup ScannedFields(StructOf(pass, ts.Name), ts.List)
    /\ AfterScan(NextPos(Files(pass), cursor))
    /\ UNCHANGED <<pass, fs, descriptor, pathIdx, readLog, protoImmutableInfo, scopeIdx, diags>>

\* any other node met by the scanner (lines 137-140)
ScanOther ==
    /\ pc = "scan"
    /\ NodeAt(Files(pass), cursor).node # "TypeSpec"
    /\ AfterScan(NextPos(Files(pass), cursor))
    /\ UNCHANGED <<pass, fs, descriptor, pathIdx, readLog, protoImmutableInfo, scopeIdx,
                   immutableFields, diags>>

AfterVisit(at) ==
    /\ cursor' = at
    /\ pc' = IF AtEnd(Files(pass), at) THEN "done" ELSE pc

\* an assignment met by the mutation scanner (lines 209-269)
VisitAssign ==
    /\ pc = "mutate"
    /\ NodeAt(Files(pass), cursor).node = "AssignStmt"
    /\ diags' = diags \o AssignReports(NodeAt(Files(pass), cursor).Lhs, 1, cursor,
                                       immutableFields, protoImmutableInfo)
    /\ AfterVisit(NextPos(Files(pass), cursor))
    /\ UNCHANGED <<pass, fs, descriptor, pathIdx, readLog, protoImmutableInfo, scopeIdx,
                   immutableFields>>

\* an increment or decrement met by the mutation scanner (lines 270-296)
VisitIncDec ==
    /\ pc = "mutate"
    /\ NodeAt(Files(pass), cursor).node = "IncDecStmt"
    /\ diags' = diags \o IncDecReports(NodeAt(Files(pass), cursor).X,
                                       <<cursor[1], cursor[2], 1>>,
                                       immutableFields, protoImmutableInfo)
    /\ AfterVisit(NextPos(Files(pass), cursor))
    /\ UNCHANGED <<pass, fs, descriptor, pathIdx, readLog, protoImmutableInfo, scopeIdx,
                   immutableFields>>

\* any other node met by the mutation scanner (lines 208, 298)
VisitOther ==
    /\ pc = "mutate"
    /\ NodeAt(Files(pass), cursor).node \notin {"AssignStmt", "IncDecStmt"}
    /\ AfterVisit(NextPos(Files(pass), cursor))
    /\ UNCHANGED <<pass, fs, descriptor, pathIdx, readLog, protoImmutableInfo, scopeIdx,
                   immutableFields, diags>>

Next ==
    \/ StatFails
    \/ LoadFails
    \/ LoadSucceeds
    \/ PathsExhausted
    \/ RegistryStep
    \/ ScanTypeSpec
    \/ ScanOther
    \/ VisitAssign
    \/ VisitIncDec
    \/ VisitOther

Spec == Init /\ [][Next]_vars

SpecLoader == InitLoader /\ [][Next]_vars
SpecDescriptor == InitDescriptor /\ [][Next]_vars

\* ------------------------------------------------------------------------
\* Vocabulary of the properties
\* ------------------------------------------------------------------------
Range(s) == { s[i] : i \in DOMAIN s }

\* the struct declarations of the files under analysis
TypeSpecs ==
    { n \in UNION { Range(Files(pass)[f]) : f \in DOMAIN Files(pass) } :
        n.node = "TypeSpec" }

\* a struct tag read as a list of key:"value" pairs
TagPairs(tag) ==
    IF tag.present
    THEN Range(Split(SubSeq(tag.Value, 2, Len(tag.Value) - 1), " "))
    ELSE {}

HasTruthyTag(astField) ==
    \/ <<"i","m","m","u","t","a","b","l","e",":","\"","t","r","u","e","\"">> \in TagPairs(astField.Tag)
    \/ <<"i","m","m","u","t","a","b","l","e",":","\"","1","\"">> \in TagPairs(astField.Tag)

HasMarkerComment(astField) ==
    \E c \in Range(astField.Comment) \cup Range(astField.Doc) :
        \E i \in 0..(Len(c) - 9) : ToLower(SubSeq(c, i + 1, i + 9)) = <<"i","m","m","u","t","a","b","l","e">>

\* the declarations (entries of a field list) that declare the field v
DeclarationsOf(v) ==
    { d \in UNION { Range(ts.List) : ts \in { t \in TypeSpecs : t.Name = v.owner } } :
        /\ v.pkg = pass.Pkg
        /\ IF v.type = "embedded" THEN d.Names = <<>> ELSE v.name \in Range(d.Names) }

\* the fields declared in the files under analysis
DeclaredFields ==
    { v \in UNION { Range(Scope(pass)[i].Fields) : i \in DOMAIN Scope(pass) } :
        DeclarationsOf(v) # {} }

TagMarked(v) == \E d \in DeclarationsOf(v) : HasTruthyTag(d)
CommentMarked(v) == \E d \in DeclarationsOf(v) : HasMarkerComment(d)

\* a name of the declared code against a name of the descriptor
Undashed(d) == SelectSeq(d, LAMBDA c : c # "_")
NamesAgree(f, d) == ToLower(f) = ToLower(d) \/ ToLower(f) = ToLower(Undashed(d))

\* the descriptor marks the message field that corresponds to v
DescriptorMarked(v) ==
    \E m \in Range(AllMessages(descriptor)) :
       /\ ToLower(m.name) = ToLower(v.owner)
       /\ \E fd \in Range(m.field) :
             /\ fd.options.present
             /\ fd.options.bytes = <<184, 136, 29, 1>>
             /\ NamesAgree(v.name, fd.name)

\* the mutations written in the files: the position, the shape and the field
Mutations ==
    LET files == Files(pass) IN
    UNION { UNION {
        LET node == files[f][n] IN
        IF node.node = "AssignStmt"
        THEN { [Pos |-> <<f, n, k>>, kind |-> "assign", obj |-> node.Lhs[k].obj,
                recv |-> node.Lhs[k].recv] :
                 k \in { j \in DOMAIN node.Lhs : node.Lhs[j].expr = "SelectorExpr" } }
             \cup
             { [Pos |-> <<f, n, k>>, kind |-> "index", obj |-> node.Lhs[k].X.obj,
                recv |-> node.Lhs[k].X.recv] :
                 k \in { j \in DOMAIN node.Lhs :
                           /\ node.Lhs[j].expr = "IndexExpr"
                           /\ node.Lhs[j].X.expr = "SelectorExpr" } }
        ELSE IF node.node = "IncDecStmt" /\ node.X.expr = "SelectorExpr"
             THEN { [Pos |-> <<f, n, 1>>, kind |-> "incdec", obj |-> node.X.obj,
                     recv |-> node.X.recv] }
             ELSE {}
        : n \in DOMAIN files[f] } : f \in DOMAIN files }

\* how often a diagnostic was reported
Count(d) == Cardinality({ i \in DOMAIN diags : diags[i] = d })

DiagsAt(pos) == { i \in DOMAIN diags : diags[i].Pos = pos }

ScanDone == pc \in {"mutate", "done"}

\* ------------------------------------------------------------------------
\* C1: every field whose tag has the key immutable with the value "true" or
\* "1", whatever keys precede or follow it, is in the immutable-field set
\* after the registry pass; a field whose declaration has no such tag and no
\* marker comment, and that the descriptor does not mark, is not.
\* ------------------------------------------------------------------------
C1_TagRecognised ==
    ScanDone =>
        \A v \in DeclaredFields :
            /\ TagMarked(v) => v \in immutableFields
            /\ (~TagMarked(v) /\ ~CommentMarked(v) /\ ~DescriptorMarked(v))
                  => v \notin immutableFields

\* ------------------------------------------------------------------------
\* C2: every assignment to a field whose declaration carries a truthy tag or
\* a marker comment is reported exactly once, with the assignment message.
\* ------------------------------------------------------------------------
C2_MarkedAssignReportedOnce ==
    pc = "done" =>
        \A m \in Mutations :
            (m.kind = "assign" /\ (TagMarked(m.obj) \/ CommentMarked(m.obj)))
               => /\ Count(Diag(m.Pos, MsgAssign, m.obj.name)) = 1
                  /\ Cardinality(DiagsAt(m.Pos)) = 1

\* ------------------------------------------------------------------------
\* C3: a field with no marker from any origin (descriptor option, truthy tag,
\* marker comment on its own declaration) is named by no diagnostic, however
\* it is mutated.
\* ------------------------------------------------------------------------
C3_UnmarkedNeverReported ==
    \A m \in Mutations :
        (~TagMarked(m.obj) /\ ~CommentMarked(m.obj) /\ ~DescriptorMarked(m.obj))
           => DiagsAt(m.Pos) = {}

\* ------------------------------------------------------------------------
\* More vocabulary
\* ------------------------------------------------------------------------
\* the registry builder has run and the scanner has not started
RegistryDone == pc = "scan" /\ cursor = FirstPos(Files(pass))

StructEntries == { e \in Range(Scope(pass)) : e.isStruct }

\* the transliteration, read off character by character
RECURSIVE CamelWalk(_, _)
CamelWalk(d, capNext) ==
    IF d = <<>> THEN <<>>
    ELSE IF Head(d) = "_" THEN CamelWalk(Tail(d), TRUE)
         ELSE << IF capNext THEN ToUpperCh(Head(d)) ELSE Head(d) >>
                \o CamelWalk(Tail(d), FALSE)

Reconciles(f, d) ==
    ToLower(f) = ToLower(d) \/ ToLower(f) = ToLower(CamelWalk(d, TRUE))

OrgField(name) == Var("org", <<"D","e","p","t">>, name, "str")

\* the candidate at index i exists / holds a well-formed document
Exists(i) == fs[FileOf(Paths[i])] # "absent"
Loads(i) == fs[FileOf(Paths[i])] = "ok"

\* the indices of S in increasing order
RECURSIVE Ascending(_)
Ascending(S) ==
    IF S = {} THEN <<>>
    ELSE LET m == CHOOSE x \in S : \A y \in S : x <= y
         IN  <<m>> \o Ascending(S \ {m})

PosLeq(p, q) ==
    \/ p[1] < q[1]
    \/ p[1] = q[1] /\ p[2] < q[2]
    \/ p[1] = q[1] /\ p[2] = q[2] /\ p[3] <= q[3]

\* the field of a mutation is known immutable: it is in the local set, or it
\* is a field of the generated package that the loaded descriptor lists under
\* the receiver's type
ReceiverName(recv) ==
    IF recv.kind = "Pointer" /\ recv.elem.kind = "Named" THEN recv.elem.name
    ELSE IF recv.kind = "Named" THEN recv.name ELSE <<>>

KnownLocally(m) == m.obj \in immutableFields

KnownByDescriptor(m) ==
    /\ PkgInfo(m.obj.pkg).Name = "pb"
    /\ ReceiverName(m.recv) \in DOMAIN protoImmutableInfo
    /\ \E d \in Range(protoImmutableInfo[ReceiverName(m.recv)].FieldNames) :
          Reconciles(m.obj.name, d)

MsgOf(kind) ==
    CASE kind = "assign" -> MsgAssign
      [] kind = "index"  -> MsgIndex
      [] kind = "incdec" -> MsgIncDec

\* the fields the local marker scanner finds in the files
ScannerMarks ==
    UNION { ScannedFields(StructOf(pass, ts.Name), ts.List) : ts \in TypeSpecs }

Degraded == \A f \in DOMAIN fs : fs[f] # "ok"

\* ------------------------------------------------------------------------
\* C4: after the registry pass a field f of a struct listed in the descriptor
\* index is in the immutable set iff some listed name d equals f
\* case-insensitively or its transliteration (split on '_', first character
\* of each segment upper-cased, concatenated) does; team_lead matches
\* TeamLead and team_lead, not TeamLeadId.
\* ------------------------------------------------------------------------
C4_NamingReconciliation ==
    RegistryDone =>
        /\ \A e \in StructEntries :
              e.Name \in DOMAIN protoImmutableInfo =>
                 \A f \in Range(e.Fields) :
                    f \in immutableFields <=>
                       \E d \in Range(protoImmutableInfo[e.Name].FieldNames) :
                          Reconciles(f.name, d)
        /\ (pass.Pkg = "org" /\ <<"D","e","p","t">> \in DOMAIN protoImmutableInfo) =>
              /\ OrgField(<<"T","e","a","m","L","e","a","d">>) \in immutableFields
              /\ OrgField(<<"t","e","a","m","_","l","e","a","d">>) \in immutableFields
              /\ Var("org", <<"D","e","p","t">>, <<"T","e","a","m","L","e","a","d","I","d">>, "num") \notin immutableFields

C4_Witness ==
    /\ RegistryDone
    /\ pass.Pkg = "org"
    /\ <<"D","e","p","t">> \in DOMAIN protoImmutableInfo
    /\ <<"t","e","a","m","_","l","e","a","d">> \in Range(protoImmutableInfo[<<"D","e","p","t">>].FieldNames)
    /\ OrgField(<<"T","e","a","m","L","e","a","d">>) \in immutableFields
    /\ OrgField(<<"t","e","a","m","_","l","e","a","d">>) \in immutableFields

\* ------------------------------------------------------------------------
\* C5: when no candidate holds a loadable descriptor the index is empty,
\* every diagnostic is at a mutation of the sources, and the diagnostics on
\* the fields the scanner marked from tags and comments are the ones the
\* sources determine, whether or not a descriptor was loaded.
\* ------------------------------------------------------------------------
C5_DegradedMode ==
    LET local == { m \in Mutations : m.obj \in ScannerMarks }
        expected == { Diag(m.Pos, MsgOf(m.kind), m.obj.name) : m \in local }
    IN
    /\ (Degraded /\ pc # "paths") => DOMAIN protoImmutableInfo = {}
    /\ \A d \in Range(diags) : \E m \in Mutations : m.Pos = d.Pos
    /\ pc = "done" =>
          { d \in Range(diags) : \E m \in local : m.Pos = d.Pos } = expected
    /\ (Degraded /\ pc = "done") => Range(diags) = expected

C5_Witness ==
    /\ Degraded
    /\ pc = "done"
    /\ \E f \in DOMAIN fs : fs[f] = "malformed"
    /\ diags # <<>>

C7_IndexMutate ==
    pc = "done" =>
        \A m \in Mutations :
            (m.kind = "index" /\ (KnownLocally(m) \/ KnownByDescriptor(m))) =>
                /\ Count(Diag(m.Pos, MsgIndex, m.obj.name)) = 1
                /\ Cardinality(DiagsAt(m.Pos)) = 1

C7_Witness ==
    /\ pc = "done"
    /\ \E m \in Mutations :
          /\ m.kind = "index"
          /\ KnownByDescriptor(m)
          /\ \A a \in Mutations : a.kind = "assign" => a.obj # m.obj
          /\ Count(Diag(m.Pos, MsgIndex, m.obj.name)) = 1

\* ------------------------------------------------------------------------
\* C8: an increment or decrement of a selector of a field known immutable,
\* through the local set, the descriptor fallback or both, is reported
\* exactly once, with the inc/dec message, at the position of the selector.
\* ------------------------------------------------------------------------
C8_IncDecOnce ==
    pc = "done" =>
        \A m \in Mutations :
            (m.kind = "incdec" /\ (KnownLocally(m) \/ KnownByDescriptor(m))) =>
                /\ Count(Diag(m.Pos, MsgIncDec, m.obj.name)) = 1
                /\ Cardinality(DiagsAt(m.Pos)) = 1

\* ------------------------------------------------------------------------
\* C9: on the example program with the descriptor loaded the diagnostics
\* are, in this order and no others: assignment to Id, to Age, to Teachers
\* twice, and the map/slice index message for Teachers; and diagnostics are
\* always emitted in file order, then node order, then operand order.
\* ------------------------------------------------------------------------
C9_ExampleProgram ==
    /\ (pc = "done" /\ pass.Pkg = "main" /\ ~Degraded) =>
          diags = << Diag(<<1, 2, 1>>, MsgAssign, <<"I","d">>),
                     Diag(<<1, 4, 1>>, MsgAssign, <<"A","g","e">>),
                     Diag(<<1, 10, 1>>, MsgAssign, <<"T","e","a","c","h","e","r","s">>),
                     Diag(<<1, 12, 1>>, MsgAssign, <<"T","e","a","c","h","e","r","s">>),
                     Diag(<<1, 13, 1>>, MsgIndex, <<"T","e","a","c","h","e","r","s">>) >>
    /\ \A i, j \in DOMAIN diags : i <= j => PosLeq(diags[i].Pos, diags[j].Pos)

C9_Witness ==
    /\ pc = "done"
    /\ pass.Pkg = "main"
    /\ ~Degraded
    /\ Len(diags) = 5

\* ------------------------------------------------------------------------
\* C10 as stated: a declared struct is reconciled with a descriptor message
\* whenever their names are equal case-insensitively.
\* ------------------------------------------------------------------------
C10_FoldedTypeMatch ==
    RegistryDone =>
        \A e \in StructEntries : \A n \in DOMAIN protoImmutableInfo :
            ToLower(e.Name) = ToLower(n) =>
                \A f \in Range(e.Fields) :
                    (\E d \in Range(protoImmutableInfo[n].FieldNames) :
                        Reconciles(f.name, d)) => f \in immutableFields

\* ------------------------------------------------------------------------
\* C10 amended: a declared struct is reconciled with the descriptor message
\* of exactly its name: the matching fields of a struct whose name is a key
\* of the index are added, and no field of a struct whose name is not a key
\* (it differs in case or altogether) is.
\* ------------------------------------------------------------------------
C10_ExactTypeMatch ==
    RegistryDone =>
        \A e \in StructEntries :
            IF e.Name \in DOMAIN protoImmutableInfo
            THEN \A f \in Range(e.Fields) :
                    (\E d \in Range(protoImmutableInfo[e.Name].FieldNames) :
                        Reconciles(f.name, d)) => f \in immutableFields
            ELSE \A f \in Range(e.Fields) : f \notin immutableFields

C10_Witness ==
    /\ RegistryDone
    /\ pass.Pkg = "org"
    /\ <<"a","c","c","o","u","n","t">> \in DOMAIN protoImmutableInfo
    /\ <<"A","c","c","o","u","n","t">> \notin DOMAIN protoImmutableInfo
    /\ AccountFields[1] \notin immutableFields
    /\ OrgField(<<"T","e","a","m","L","e","a","d">>) \in immutableFields

\* the descriptor lists the field of a mutation under the struct that
\* declares it, and the field belongs to the generated package
OwnerListed(m) ==
    /\ PkgInfo(m.obj.pkg).Name = "pb"
    /\ m.obj.owner \in DOMAIN protoImmutableInfo
    /\ \E d \in Range(protoImmutableInfo[m.obj.owner].FieldNames) :
          Reconciles(m.obj.name, d)

\* ------------------------------------------------------------------------
\* C11: the descriptor fallback looks the index up under the struct that
\* declares the field: a mutation of a descriptor-immutable field of the
\* generated type Person is reported once, whether the selector goes through
\* a Person value or pointer or reaches the field as a promoted field of a
\* struct that embeds Person.
\* ------------------------------------------------------------------------
C11_FallbackByOwner ==
    pc = "done" =>
        \A m \in Mutations :
            (m.kind = "assign" /\ m.obj \notin immutableFields /\ OwnerListed(m)) =>
                Count(Diag(m.Pos, MsgAssign, m.obj.name)) = 1

\* ------------------------------------------------------------------------
\* C12: the scanner pairs each resolved field with the declaration that
\* declares it: after the scan a field of a struct the descriptor does not
\* list is in the immutable set iff its own declaration carries a marker the
\* scanner recognises, also when a declaration introduces several names
\* (A, B int // immutable followed by C int marks A and B and not C).
\* ------------------------------------------------------------------------
C12_PairedWithOwnDeclaration ==
    ScanDone =>
        \A v \in DeclaredFields :
            v.owner \notin DOMAIN protoImmutableInfo =>
                (v \in immutableFields <=>
                    \E d \in DeclarationsOf(v) : AstFieldIsImmutable(d))

\* the top-level messages of the descriptor set, in order
TopLevel ==
    LET RECURSIVE Flat(_)
        Flat(k) == IF k > Len(descriptor) THEN <<>>
                   ELSE descriptor[k].messageType \o Flat(k + 1)
    IN  Flat(1)

\* the serialized options of the field begin with 184,136,29,1
Flagged(fd) ==
    /\ fd.options.present
    /\ Len(fd.options.bytes) >= 4
    /\ SubSeq(fd.options.bytes, 1, 4) = <<184, 136, 29, 1>>

\* a well-formed descriptor file has been loaded
Loaded == pc # "paths" /\ \E k \in DOMAIN readLog : Loads(readLog[k])

\* the fields of m whose options are flagged, in field order
FlaggedNames(m) ==
    LET idx == { i \in DOMAIN m.field : Flagged(m.field[i]) }
        nth(j) == CHOOSE i \in idx : Cardinality({ x \in idx : x < i }) = j - 1
    IN  [j \in 1..Cardinality(idx) |-> m.field[nth(j)].name]

\* ------------------------------------------------------------------------
\* C13: after a load, a field name is listed under the name of its top-level
\* message iff the serialized options of the field begin with 184,136,29,1;
\* the listed names are the descriptor's spelling in field order, and a
\* message with no such field has no entry.
\* ------------------------------------------------------------------------
C13_ListedIffOption ==
    Loaded =>
        /\ \A k \in DOMAIN TopLevel :
              LET m == TopLevel[k] IN
              \A i \in DOMAIN m.field :
                  Flagged(m.field[i]) =>
                      /\ m.name \in DOMAIN protoImmutableInfo
                      /\ m.field[i].name \in Range(protoImmutableInfo[m.name].FieldNames)
        /\ \A n \in DOMAIN protoImmutableInfo :
              \E k \in DOMAIN TopLevel :
                  /\ TopLevel[k].name = n
                  /\ protoImmutableInfo[n].FieldNames = FlaggedNames(TopLevel[k])
                  /\ FlaggedNames(TopLevel[k]) # <<>>

\* the embedded fields of the declared structs, each with the entry of the
\* field list at its index (none when the list is shorter)
EmbeddedPairs ==
    UNION { LET fields == StructOf(pass, ts.Name) IN
            { [obj |-> fields[i],
               paired |-> IF i <= Len(ts.List) THEN << ts.List[i] >> ELSE <<>>] :
                i \in { k \in DOMAIN fields : fields[k].type = "embedded" } } :
            ts \in TypeSpecs }

\* a truthy immutable key that another key follows
TagSeen(astField) ==
    /\ astField.Tag.present
    /\ LET pairs == Split(SubSeq(astField.Tag.Value, 2, Len(astField.Tag.Value) - 1), " ")
       IN  \E k \in 1..(Len(pairs) - 1) :
               pairs[k] \in { <<"i","m","m","u","t","a","b","l","e",":","\"","t","r","u","e","\"">>, <<"i","m","m","u","t","a","b","l","e",":","\"","1","\"">> }

EmbeddedAssigns == { m \in Mutations : m.kind = "assign" /\ m.obj.type = "embedded" }

\* ------------------------------------------------------------------------
\* C14 as stated: the scanner skips embedded fields: none is in the immutable
\* set after the scan and no assignment to one is reported.
\* ------------------------------------------------------------------------
C14_EmbeddedSkipped ==
    /\ ScanDone => \A e \in EmbeddedPairs : e.obj \notin immutableFields
    /\ pc = "done" => \A m \in EmbeddedAssigns : DiagsAt(m.Pos) = {}

\* ------------------------------------------------------------------------
\* C14: the scanner does not skip embedded fields: an embedded field is
\* paired with the entry of the field list at its index like any other
\* field, and is in the immutable set after the scan iff that entry carries
\* a marker comment or a tag the scanner recognises; an assignment to the
\* embedded field is then reported once, under the name of the embedded
\* type, and is not reported otherwise.
\* ------------------------------------------------------------------------
C14_EmbeddedScanned ==
    /\ ScanDone =>
          \A e \in EmbeddedPairs :
              e.obj \in immutableFields <=>
                  \E d \in Range(e.paired) : HasMarkerComment(d) \/ TagSeen(d)
    /\ pc = "done" =>
          \A m \in EmbeddedAssigns :
              /\ Count(Diag(m.Pos, MsgAssign, m.obj.name)) =
                    (IF m.obj \in immutableFields THEN 1 ELSE 0)
              /\ Cardinality(DiagsAt(m.Pos)) <= 1

C14_Witness ==
    /\ pc = "done"
    /\ \E m \in EmbeddedAssigns :
          /\ m.obj \in immutableFields
          /\ \E d \in DeclarationsOf(m.obj) : d.Names = <<>> /\ HasMarkerComment(d)
          /\ Count(Diag(m.Pos, MsgAssign, <<"P","e","r","s","o","n">>)) = 1

====
